---- MODULE Spec2Model ----
(***************************************************************************)
(* A model of the retrieval and index-catalog code of auto-dev-vscode:     *)
(*   - SqliteDb.get / SqliteDb.createTables (code-search/database/         *)
(*     SqliteDb.ts), the lazily opened, cached catalog store handle, with  *)
(*     several get() calls interleaving at their await points;             *)
(*   - Retrieval.retrieveGit, the commit-history strategy;                 *)
(*   - Retrieval.retrieveFts, the full-text adapter;                       *)
(*   - Retrieval.deduplicateChunks, applied to a chunk sequence and then   *)
(*     to its own result;                                                  *)
(*   - DeepseekLanguageModelProvider.provideChatResponse with the          *)
(*     streaming branch of ChatDeepseek._generate and completionWithRetry  *)
(*     (base/common/language-models), with the caller's cancellation;      *)
(*   - configRename and registerRenameAction (action/ProviderRegister.ts)   *)
(*     under configuration changes;                                        *)
(*   - JavaStructurer.parseFile (semantic-treesitter/java), the loop over   *)
(*     the captures of the structure query.                                *)
(* Each part has its own specification over the shared variables; the      *)
(* variables of the other parts stay at their initial values.              *)
(***************************************************************************)
EXTENDS Integers, Sequences, FiniteSets, TLC

\* ------------------------------------------------------------------ bounds
\* Number of SqliteDb.get() calls issued in one behaviour.
NCalls == 2
\* Number of times the environment deletes the backing file.
MaxDeletes == 1
\* Longest chunk sequence handed to deduplicateChunks.
MaxChunks == 3
\* Longest sequence of events the server sends on one response stream.
MaxEvents == 2
\* Number of configuration-change events after configRename.
MaxConfigChanges == 5
\* Largest number of captures the structure query yields for a file.
MaxCaptures == 3

\* ---------------------------------------------------------------- the state
\* SqliteDb
VARIABLES
    db,           \* SqliteDb.db: the cached handle, Null or a handle id
    fileStore,    \* the store (file incarnation) now at indexSqlitePath, 0 = no file
    tables,       \* tables[s]: the tables created so far in store s
    handleStore,  \* handleStore[h]: the store handle h is bound to
    pc,           \* pc[c]: where call c of get() stands
    own,          \* own[c]: the handle call c's sqlite.open produced (createTables' argument)
    ret,          \* ret[c]: the handle call c returned, Null if none
    obs,          \* obs[c]: what was observed about call c (history, not program state)
    opens,        \* number of sqlite.open invocations so far
    deletes,      \* number of deletions of the backing file so far
    everMissing,  \* the backing file was missing at some moment of the behaviour
    lastDone      \* the call that completed most recently, 0 if none

dbVars == <<db, fileStore, tables, handleStore, pc, own, ret, obs, opens, deletes,
            everMissing, lastDone>>

\* retrieveGit
VARIABLES
    commits,     \* what git.getHistoryCommits() resolves to: a sequence of [hash]
    gitChange,   \* what git.getChangeByHash(hash) resolves to, per hash
    results,     \* what tfIdfTextSearch.search(term.query) returns: one score per commit
    threshold,   \* the threshold parameter
    termN,       \* term.n
    gpc,         \* where the retrieveGit call stands
    indexes,     \* the local `indexes`
    gi,          \* position of the for-of loop in `indexes` (1-based)
    chunks,      \* the local `chunks`; the result once gpc = "done"
    gitCalls,    \* the hashes getChangeByHash was called with, in call order
    gitErr       \* the collaborator call that rejected, and the calls made by then (history)

gitVars == <<commits, gitChange, results, threshold, termN, gpc, indexes, gi, chunks,
             gitCalls, gitErr>>

\* retrieveFts
VARIABLES
    term,        \* the RetrievalQueryTerm of the call: [query, n]
    fpc,         \* where the retrieveFts call stands
    ftsResults,  \* the local `ftsResults`; the result once fpc = "done"
    engineCalls, \* the (query string, limit) pairs ftsIndex.retrieve was called with
    ftsWarned    \* console.warn was called by the catch block

ftsVars == <<term, fpc, ftsResults, engineCalls, ftsWarned>>

\* deduplicateChunks
VARIABLES
    dIn,     \* the `chunks` argument of the first call
    dOnce,   \* what deduplicateChunks(dIn) returned
    dTwice,  \* what deduplicateChunks(dOnce) returned
    dpc      \* how many calls have returned: "start", "once", "twice"

dedupVars == <<dIn, dOnce, dTwice, dpc>>

\* provideChatResponse
VARIABLES
    cpc,          \* where the provideChatResponse call stands
    hasToken,     \* the `token` argument is given
    humanTyped,   \* some message handed to _generate has _getType() = "human"
    serverEvents, \* the events the server sends on the response stream
    tokenCancelled, \* the caller's token has signalled cancellation
    listening,    \* the listener of lines 28-30 is registered on the token
    acAborted,    \* ac.signal.aborted
    streamSignal, \* the `signal` option llm.stream was called with
    fetchSignal,  \* the `signal` fetch was called with
    net,          \* the network request of completionWithRetry
    delivered,    \* number of events handed to the onmessage callback
    rejected,     \* the local `rejected` of _generate
    resolved,     \* the local `resolved` of _generate
    response,     \* the local `response` of _generate
    promise,      \* the promise of lines 250-297
    settles,      \* the calls of resolve and reject, in order
    content,      \* what provideChatResponse returned
    inChunk,      \* the reader loop is going through the lines of one chunk
    generated,    \* the text _generate read from the resolved value (line 319)
    deliveredAtCancel \* `delivered` when the token signalled cancellation

chatVars == <<cpc, hasToken, humanTyped, serverEvents, tokenCancelled, listening,
              acAborted, streamSignal, fetchSignal, net, delivered, rejected,
              resolved, response, promise, settles, content, inChunk, generated,
              deliveredAtCancel>>

\* configRename
VARIABLES
    rpc,            \* "start" before configRename is called, "listening" after
    renameEnabled,  \* what SettingService.instance().isEnableRename() returns
    subscriptions,  \* extensionContext.subscriptions: the registrations pushed
    renameProviders, \* the rename provider registrations active in the editor
    changeLog       \* the rename setting as of each configuration change

renameVars == <<rpc, renameEnabled, subscriptions, renameProviders, changeLog>>

\* JavaStructurer.parseFile
VARIABLES
    captures,     \* the names of the captures of the file, in order; the text
                  \* of capture k is taken to be k
    captureNames, \* query.captureNames: the capture names the query declares
    parentCall,   \* what calling capture.node.parent() does
    ji,           \* the loop variable i
    jpackage,     \* codeFile.package ('' is 0)
    classObj,     \* the local classObj
    classes,      \* codeFile.classes
    isLastNode,   \* the local isLastNode
    jpc           \* "loop", "done" (returned) or "failed" (rejected)

javaVars == <<captures, captureNames, parentCall, ji, jpackage, classObj, classes,
              isLastNode, jpc>>

vars == <<dbVars, gitVars, ftsVars, dedupVars, chatVars, renameVars, javaVars>>
otherThanDb == <<gitVars, ftsVars, dedupVars, chatVars, renameVars, javaVars>>
otherThanGit == <<dbVars, ftsVars, dedupVars, chatVars, renameVars, javaVars>>
otherThanFts == <<dbVars, gitVars, dedupVars, chatVars, renameVars, javaVars>>
otherThanDedup == <<dbVars, gitVars, ftsVars, chatVars, renameVars, javaVars>>
otherThanChat == <<dbVars, gitVars, ftsVars, dedupVars, renameVars, javaVars>>
otherThanRename == <<dbVars, gitVars, ftsVars, dedupVars, chatVars, javaVars>>
otherThanJava == <<dbVars, gitVars, ftsVars, dedupVars, chatVars, renameVars>>

Null == 0
Calls == 1..NCalls
AllTables == {"tag_catalog", "global_cache"}

InFlight(c) == pc[c] \in {"open", "opened", "exec1", "exec2"}
Quiet(c) == \A d \in Calls \ {c} : ~InFlight(d)
Exists == fileStore # 0

\* Whether the tables of the store behind handle h are all created; FALSE for Null.
Ready(h, tbl) == h # Null /\ tbl[handleStore[h]] = AllTables

\* Faulty variants of the cache test: one that does not consult the file, one
\* that never reuses the handle.
CacheValidIgnoringFile(d, exists) == d # Null
CacheValidNever(d, exists) == FALSE
\* get(), line 44: the cached handle is reused iff it is set and the file exists.
CacheValid(d, exists) == d # Null /\ exists

\* get(), line 56: the value returned after createTables is the static field,
\* not the local result of sqlite.open.
GetResult(local, cached) == cached

\* Faulty variant: the error is swallowed and the cached handle returned.
GetSwallows(d) == [pc |-> "returned", ret |-> d]
\* get(), lines 49-54: a rejected await is not caught; the call rejects and
\* returns nothing.  d is the cached handle at that moment.
GetRejects(d) == [pc |-> "failed", ret |-> Null]

NoObs == [startDb |-> Null, startMissing |-> FALSE, seqAfter |-> 0, solo |-> FALSE,
          delSince |-> FALSE, retReady |-> FALSE, errAt |-> "none"]

DbInit ==
    /\ db = Null
    /\ \E pre \in BOOLEAN :
          \* the file of an earlier run, with its tables, or no file yet
          /\ fileStore = IF pre THEN 1 ELSE 0
          /\ tables = IF pre THEN <<AllTables>> ELSE <<>>
          /\ everMissing = ~pre
    /\ handleStore = <<>>
    /\ pc = [c \in Calls |-> "idle"]
    /\ own = [c \in Calls |-> Null]
    /\ ret = [c \in Calls |-> Null]
    /\ obs = [c \in Calls |-> NoObs]
    /\ opens = 0
    /\ deletes = 0
    /\ lastDone = 0

\* What the start of call c records: the cached handle and the file's presence
\* it saw, whether it follows a completed call with nothing in flight and no
\* deletion since that call began, and whether it runs alone.
StartObs(c) ==
    [obs[c] EXCEPT !.startDb = db,
                   !.startMissing = ~Exists,
                   !.seqAfter = IF /\ Quiet(c)
                                   /\ lastDone # 0
                                   /\ pc[lastDone] = "returned"
                                   /\ ~obs[lastDone].delSince
                                THEN lastDone ELSE 0,
                   !.solo = Quiet(c),
                   !.delSince = FALSE]

\* A call that starts ends the solitude of every call in flight.
Overlapped(c, o) == [d \in Calls |-> IF d # c /\ InFlight(d)
                                     THEN [o[d] EXCEPT !.solo = FALSE] ELSE o[d]]

\* get(), lines 43-52, up to the first await: the cache test, then either the
\* cached handle is returned or sqlite.open is invoked.
GetStart(c) ==
    /\ pc[c] = "idle"
    /\ \A d \in Calls : d < c => pc[d] # "idle"
    /\ IF CacheValid(db, Exists)
       THEN /\ pc' = [pc EXCEPT ![c] = "returned"]
            /\ ret' = [ret EXCEPT ![c] = db]
            /\ obs' = Overlapped(c, [obs EXCEPT ![c] =
                          [StartObs(c) EXCEPT !.retReady = Ready(db, tables)]])
            /\ lastDone' = c
            /\ opens' = opens
       ELSE /\ pc' = [pc EXCEPT ![c] = "open"]
            /\ obs' = Overlapped(c, [obs EXCEPT ![c] = StartObs(c)])
            /\ opens' = opens + 1
            /\ UNCHANGED <<ret, lastDone>>
    /\ UNCHANGED <<db, fileStore, tables, handleStore, own, deletes, everMissing>>
    /\ UNCHANGED otherThanDb

\* sqlite.open at work (line 49): the driver opens the file at the path,
\* creating an empty store when there is none, and binds a new handle to it.
OpenIO(c) ==
    /\ pc[c] = "open"
    /\ IF Exists
       THEN /\ handleStore' = Append(handleStore, fileStore)
            /\ UNCHANGED <<fileStore, tables>>
       ELSE /\ tables' = Append(tables, {})
            /\ fileStore' = Len(tables) + 1
            /\ handleStore' = Append(handleStore, Len(tables) + 1)
    /\ own' = [own EXCEPT ![c] = Len(handleStore) + 1]
    /\ pc' = [pc EXCEPT ![c] = "opened"]
    /\ UNCHANGED <<db, ret, obs, opens, deletes, everMissing, lastDone>>
    /\ UNCHANGED otherThanDb

\* The call fails at step `at` and ends as `out` says.
Fails(c, at, out) ==
    /\ pc' = [pc EXCEPT ![c] = out.pc]
    /\ ret' = [ret EXCEPT ![c] = out.ret]
    /\ obs' = [obs EXCEPT ![c].errAt = at, ![c].retReady = Ready(out.ret, tables)]
    /\ lastDone' = c
    /\ UNCHANGED <<db, fileStore, tables, handleStore, own, opens, deletes, everMissing>>
    /\ UNCHANGED otherThanDb

\* sqlite.open rejects (line 49).
OpenFail(c) ==
    /\ pc[c] = "open"
    /\ Fails(c, "open", GetRejects(db))

\* The await of line 49 resumes: SqliteDb.db is assigned and createTables is
\* called with it, which issues the first db.exec (line 18).
OpenResolve(c) ==
    /\ pc[c] = "opened"
    /\ db' = own[c]
    /\ pc' = [pc EXCEPT ![c] = "exec1"]
    /\ UNCHANGED <<fileStore, tables, handleStore, own, ret, obs, opens, deletes,
                   everMissing, lastDone>>
    /\ UNCHANGED otherThanDb

\* createTables, lines 18-30: tag_catalog is created; the second exec is issued.
Exec1Done(c) ==
    /\ pc[c] = "exec1"
    /\ tables' = [tables EXCEPT ![handleStore[own[c]]] = @ \cup {"tag_catalog"}]
    /\ pc' = [pc EXCEPT ![c] = "exec2"]
    /\ UNCHANGED <<db, fileStore, handleStore, own, ret, obs, opens, deletes,
                   everMissing, lastDone>>
    /\ UNCHANGED otherThanDb

\* The first db.exec rejects (line 18).
Exec1Fail(c) ==
    /\ pc[c] = "exec1"
    /\ Fails(c, "exec1", GetRejects(db))

\* createTables, lines 30-38, then get(), line 56: global_cache is created,
\* createTables resolves and get() returns.
Exec2Done(c) ==
    /\ pc[c] = "exec2"
    /\ tables' = [tables EXCEPT ![handleStore[own[c]]] = @ \cup {"global_cache"}]
    /\ pc' = [pc EXCEPT ![c] = "returned"]
    /\ ret' = [ret EXCEPT ![c] = GetResult(own[c], db)]
    /\ obs' = [obs EXCEPT ![c].retReady = Ready(GetResult(own[c], db), tables')]
    /\ lastDone' = c
    /\ UNCHANGED <<db, fileStore, handleStore, own, opens, deletes, everMissing>>
    /\ UNCHANGED otherThanDb

\* The second db.exec rejects (line 30).
Exec2Fail(c) ==
    /\ pc[c] = "exec2"
    /\ Fails(c, "exec2", GetRejects(db))

\* The environment deletes the backing file.  Open handles keep the store
\* they were bound to.
DeleteFile ==
    /\ Exists
    /\ deletes < MaxDeletes
    /\ fileStore' = 0
    /\ deletes' = deletes + 1
    /\ everMissing' = TRUE
    /\ obs' = [c \in Calls |-> [obs[c] EXCEPT !.delSince = TRUE]]
    /\ UNCHANGED <<db, tables, handleStore, pc, own, ret, opens, lastDone>>
    /\ UNCHANGED otherThanDb
DbNext ==
    \/ \E c \in Calls : GetStart(c)
    \/ \E c \in Calls : OpenIO(c)
    \/ \E c \in Calls : OpenFail(c)
    \/ \E c \in Calls : OpenResolve(c)
    \/ \E c \in Calls : Exec1Done(c)
    \/ \E c \in Calls : Exec1Fail(c)
    \/ \E c \in Calls : Exec2Done(c)
    \/ \E c \in Calls : Exec2Fail(c)
    \/ DeleteFile

\* ------------------------------------------------- SqliteDb: the claims

Returned(c) == pc[c] = "returned"

\* C1: under any interleaving of get() calls, every handle a call returns
\* refers, at the moment it is returned, to a store in which both tag_catalog
\* and global_cache have been created.
C1_ReturnedHandleHasTables ==
    \A c \in Calls : Returned(c) => obs[c].retReady

\* C2: while the backing file exists (it was there from the start and was
\* never deleted), the get() calls open the store at most once and all
\* return the same handle.
C2_Singleton ==
    ~everMissing =>
        /\ opens <= 1
        /\ \A c1, c2 \in Calls : Returned(c1) /\ Returned(c2) => ret[c1] = ret[c2]

\* C3: a get() call that starts after an earlier call has returned, with no
\* other call in flight and the file not deleted since that earlier call
\* began, returns the same handle as the earlier call, without opening the
\* store, without creating tables and without failing.
C3_SequentialSameHandle ==
    \A c \in Calls :
        obs[c].seqAfter # 0 =>
            /\ Returned(c)
            /\ ret[c] = ret[obs[c].seqAfter]
            /\ ret[c] # Null
            /\ own[c] = Null
            /\ obs[c].errAt = "none"

C3_Witness ==
    \E c \in Calls : obs[c].seqAfter # 0 /\ Returned(c) /\ opens = 1 /\ Exists

\* C4: a get() call that finds a handle cached and the file missing takes the
\* open path; when it returns, the handle it returns is not the one that was
\* cached when it started, both tables exist in the store its own open
\* produced, and, when no other call overlapped it, the handle returned (the
\* cached one, read back from SqliteDb.db) is the one it opened.
C4_ReopenAfterDelete ==
    \A c \in Calls :
        pc[c] # "idle" /\ obs[c].startMissing /\ obs[c].startDb # Null =>
            /\ pc[c] # "returned" \/ own[c] # Null
            /\ Returned(c) =>
                 /\ ret[c] # obs[c].startDb
                 /\ ret[c] # Null
                 /\ Ready(own[c], tables)
                 /\ obs[c].solo => ret[c] = own[c]

C4_Witness ==
    \E c \in Calls :
        /\ obs[c].startMissing /\ obs[c].startDb # Null
        /\ Returned(c) /\ obs[c].solo /\ ret[c] = db

\* C5: when sqlite.open or a table-creating exec fails inside get(), the call
\* ends in failure and returns no handle.
C5_OpenFailurePropagates ==
    \A c \in Calls :
        obs[c].errAt # "none" => pc[c] = "failed" /\ ret[c] = Null

C5_Witness ==
    /\ \E c \in Calls : obs[c].errAt = "open" /\ db # Null
    /\ \E c \in Calls : obs[c].errAt \in {"exec1", "exec2"}

\* The cached handle was left by a call whose createTables rejected, and the
\* tables of its store are not all there.
StaleCache ==
    /\ db # Null
    /\ ~Ready(db, tables)
    /\ \E d \in Calls :
           pc[d] = "failed" /\ own[d] = db /\ obs[d].errAt \in {"exec1", "exec2"}

\* C20: after a get() call failed, no handle of a store without its tables
\* stays cached: a get() call that starts later does not return the handle
\* whose table creation never completed, it opens the store again.
C20_NoStaleHandleAfterFailure ==
    [][\A c \in Calls :
           StaleCache /\ pc[c] = "idle" /\ pc'[c] # "idle" => pc'[c] = "open"]_vars

\* ------------------------------------------------- retrieveGit: the state
\* Bounds of the inputs of one retrieveGit call.
MaxCommits == 3
MaxScore == 2
MaxN == 3

HashNames == <<"h1", "h2", "h3", "h4", "h5", "h6">>
Changes == {"", "diff"}

Max(a, b) == IF a >= b THEN a ELSE b
Min(a, b) == IF a <= b THEN a ELSE b

\* s[i] of a JavaScript array (indices from 0).
At(s, i) == s[i + 1]

\* Faulty variant: a score equal to the threshold passes.
PassesOrEqual(score, t) == score >= t
\* line 170: the test a score must pass.
Passes(score, t) == score > t

\* line 170: results.map((score, index) => score > threshold ? index : -1)
MapIndex(res, t) == [k \in 1..Len(res) |-> IF Passes(res[k], t) THEN k - 1 ELSE 0 - 1]

\* line 171: .filter((index) => index !== -1)
Filtered(s) == SelectSeq(s, LAMBDA x : x # 0 - 1)

\* Faulty variant: the comparator with its operands swapped.
CompareAscending(a, b, res) == At(res, a) - At(res, b)
\* line 172: the comparator (a, b) => results[b] - results[a]
Compare(a, b, res) == At(res, b) - At(res, a)

\* Array.prototype.sort with that comparator: a stable sort (ECMAScript 2019);
\* x is placed after the last element that does not compare greater than it.
RECURSIVE Insert(_, _, _)
Insert(sorted, x, res) ==
    IF sorted = <<>> THEN <<x>>
    ELSE LET last == sorted[Len(sorted)]
             front == SubSeq(sorted, 1, Len(sorted) - 1)
         IN  IF Compare(last, x, res) <= 0
             THEN Append(sorted, x)
             ELSE Append(Insert(front, x, res), last)

RECURSIVE Sort(_, _)
Sort(s, res) ==
    IF s = <<>> THEN <<>>
    ELSE Insert(Sort(SubSeq(s, 1, Len(s) - 1), res), s[Len(s)], res)

\* lines 169-172: the passing indices, ranked.
RankedIndexes(res, t) == Sort(Filtered(MapIndex(res, t)), res)

\* Faulty variant: no truncation.
SliceNone(s, end) == s
\* line 179: Array.prototype.slice(0, end): a negative end counts from the
\* end of the array.
Slice(s, end) ==
    LET k == IF end < 0 THEN Max(Len(s) + end, 0) ELSE Min(end, Len(s))
    IN  SubSeq(s, 1, k)

\* Faulty variant: empty diffs are not skipped.
SkipsNever(changes) == FALSE
\* line 191: a commit whose diff is the empty string yields no chunk.
SkipsCommit(changes) == changes = ""

\* Faulty variant: the content is taken for the digest.
MakeChunkDigestOfContent(commit, changes) ==
    [language |-> "", digest |-> changes, filepath |-> commit.hash,
     content |-> changes, startLine |-> 0, endLine |-> 0, index |-> 0]
\* lines 195-203: the chunk of a commit.
MakeChunk(commit, changes) ==
    [language |-> "", digest |-> commit.hash, filepath |-> commit.hash,
     content |-> changes, startLine |-> 0, endLine |-> 0, index |-> 0]

NoGitErr == [at |-> "none", calls |-> 0]

\* Faulty variant: the rejection is caught and what was gathered is returned.
GitCatches(at) == "done"
\* lines 161 and 189: neither await is inside a try block; a rejection of
\* getHistoryCommits or getChangeByHash rejects retrieveGit.
GitRejects(at) == "failed"

GitInit ==
    /\ \E len \in 0..MaxCommits :
          /\ commits = [i \in 1..len |-> [hash |-> HashNames[i]]]
          /\ gitChange \in [{HashNames[i] : i \in 1..len} -> Changes]
          /\ results \in [1..len -> 0..MaxScore]
    /\ threshold \in 0..MaxScore
    /\ termN \in (0 - 1)..MaxN
    /\ gpc = "start"
    /\ indexes = <<>>
    /\ gi = 1
    /\ chunks = <<>>
    /\ gitCalls = <<>>
    /\ gitErr = NoGitErr

\* lines 160-179: getHistoryCommits resolves; the messages are scored, the
\* passing indices ranked and cut to term.n; with none passing the call
\* returns [] at once.
GitHistoryResolved ==
    /\ gpc = "start"
    /\ LET ranked == RankedIndexes(results, threshold)
       IN  IF Len(ranked) = 0
           THEN /\ gpc' = "done"
                /\ indexes' = ranked
           ELSE /\ gpc' = "loop"
                /\ indexes' = Slice(ranked, termN)
    /\ UNCHANGED <<commits, gitChange, results, threshold, termN, gi, chunks, gitCalls,
                   gitErr>>
    /\ UNCHANGED otherThanGit

\* line 161: getHistoryCommits rejects; nothing catches it.
GitHistoryFails ==
    /\ gpc = "start"
    /\ gpc' = GitRejects("history")
    /\ gitErr' = [at |-> "history", calls |-> Len(gitCalls)]
    /\ UNCHANGED <<commits, gitChange, results, threshold, termN, indexes, gi, chunks,
                   gitCalls>>
    /\ UNCHANGED otherThanGit

\* lines 183-206, one iteration: the diff of the next index is fetched and,
\* unless it is empty, its chunk is pushed.
GitChangeResolved ==
    /\ gpc = "loop"
    /\ gi <= Len(indexes)
    /\ LET index == indexes[gi]
       IN  IF index = 0 - 1
           THEN UNCHANGED <<chunks, gitCalls>>
           ELSE LET commit == At(commits, index)
                    changes == gitChange[commit.hash]
                IN  /\ gitCalls' = Append(gitCalls, commit.hash)
                    /\ chunks' = IF SkipsCommit(changes) THEN chunks
                                 ELSE Append(chunks, MakeChunk(commit, changes))
    /\ gi' = gi + 1
    /\ UNCHANGED <<commits, gitChange, results, threshold, termN, gpc, indexes, gitErr>>
    /\ UNCHANGED otherThanGit

\* line 189: getChangeByHash rejects; nothing catches it.
GitChangeFails ==
    /\ gpc = "loop"
    /\ gi <= Len(indexes)
    /\ indexes[gi] # 0 - 1
    /\ gitCalls' = Append(gitCalls, At(commits, indexes[gi]).hash)
    /\ gpc' = GitRejects("change")
    /\ gitErr' = [at |-> "change", calls |-> Len(gitCalls) + 1]
    /\ UNCHANGED <<commits, gitChange, results, threshold, termN, indexes, gi, chunks>>
    /\ UNCHANGED otherThanGit

\* line 208: the loop is over; chunks is returned.
GitReturn ==
    /\ gpc = "loop"
    /\ gi > Len(indexes)
    /\ gpc' = "done"
    /\ UNCHANGED <<commits, gitChange, results, threshold, termN, indexes, gi, chunks,
                   gitCalls, gitErr>>
    /\ UNCHANGED otherThanGit
GitNext ==
    \/ GitHistoryResolved
    \/ GitHistoryFails
    \/ GitChangeResolved
    \/ GitChangeFails
    \/ GitReturn

\* ------------------------------------------------------------ retrieveFts
\* Bounds of the inputs of one retrieveFts call.
MaxQueryLen == 4
MaxEngineLen == 2

\* Strings are sequences of characters.
Alphabet == {" ", "\t", "a"}
Queries == UNION {[1..k -> Alphabet] : k \in 0..MaxQueryLen}

\* String.prototype.trim removes white space and line terminators at both ends.
WhiteSpace == {" ", "\t", "\n"}

RECURSIVE TrimStart(_)
TrimStart(s) ==
    IF s # <<>> /\ s[1] \in WhiteSpace THEN TrimStart(SubSeq(s, 2, Len(s))) ELSE s

RECURSIVE TrimEnd(_)
TrimEnd(s) ==
    IF s # <<>> /\ s[Len(s)] \in WhiteSpace THEN TrimEnd(SubSeq(s, 1, Len(s) - 1)) ELSE s

\* Faulty variant: the query is not trimmed.
TrimNone(s) == s
\* term.query.trim()
Trim(s) == TrimEnd(TrimStart(s))

\* String.prototype.split(" "): the pieces between single spaces, empty
\* pieces included.
RECURSIVE Split(_)
Split(s) ==
    IF \A i \in 1..Len(s) : s[i] # " " THEN <<s>>
    ELSE LET i == CHOOSE j \in 1..Len(s) :
                      s[j] = " " /\ \A k \in 1..(j - 1) : s[k] # " "
         IN  <<SubSeq(s, 1, i - 1)>> \o Split(SubSeq(s, i + 1, Len(s)))

\* line 219: (element) => `"${element}"`
Quote(element) == <<"\"">> \o element \o <<"\"">>

\* Array.prototype.join(sep)
RECURSIVE Join(_, _)
Join(parts, sep) ==
    IF parts = <<>> THEN <<>>
    ELSE IF Len(parts) = 1 THEN parts[1]
    ELSE parts[1] \o sep \o Join(SubSeq(parts, 2, Len(parts)), sep)

OrSeparator == <<" ", "O", "R", " ">>

\* line 219: term.query.trim().split(" ").map(quote).join(" OR ")
BuildQuery(query) ==
    LET tokens == Split(Trim(query))
    IN  Join([k \in 1..Len(tokens) |-> Quote(tokens[k])], OrSeparator)

\* What ftsIndex.retrieve may resolve to: any short sequence of chunks.
EngineChunks ==
    {[language |-> "ts", digest |-> "d", filepath |-> f, content |-> "c",
      startLine |-> 1, endLine |-> 2, index |-> 0] : f \in {"f1", "f2"}}
EngineResults == UNION {[1..k -> EngineChunks] : k \in 0..MaxEngineLen}

FtsInit ==
    /\ term \in [query : Queries, n : 0..MaxN]
    /\ fpc = "start"
    /\ ftsResults = <<>>
    /\ engineCalls = <<>>
    /\ ftsWarned = FALSE

\* lines 212-226: the index object is constructed; a query that is not empty
\* after trimming is handed to ftsIndex.retrieve, an empty one returns [].
FtsStart ==
    /\ fpc = "start"
    /\ IF Trim(term.query) # <<>>
       THEN /\ engineCalls' = Append(engineCalls,
                                 [query |-> BuildQuery(term.query), limit |-> term.n])
            /\ fpc' = "await"
       ELSE /\ fpc' = "done"
            /\ UNCHANGED engineCalls
    /\ UNCHANGED <<term, ftsResults, ftsWarned>>
    /\ UNCHANGED otherThanFts

\* line 212: the constructor throws, outside the try block.
FtsConstructFails ==
    /\ fpc = "start"
    /\ fpc' = "failed"
    /\ UNCHANGED <<term, ftsResults, engineCalls, ftsWarned>>
    /\ UNCHANGED otherThanFts

\* lines 217-227: retrieve resolves; its result is returned as it is.
FtsEngineReturns ==
    /\ fpc = "await"
    /\ \E r \in EngineResults : ftsResults' = r
    /\ fpc' = "done"
    /\ UNCHANGED <<term, engineCalls, ftsWarned>>
    /\ UNCHANGED otherThanFts

\* lines 228-231: retrieve raises; the catch block warns and returns [].
FtsEngineRaises ==
    /\ fpc = "await"
    /\ ftsWarned' = TRUE
    /\ ftsResults' = <<>>
    /\ fpc' = "done"
    /\ UNCHANGED <<term, engineCalls>>
    /\ UNCHANGED otherThanFts

FtsNext ==
    \/ FtsStart
    \/ FtsConstructFails
    \/ FtsEngineReturns
    \/ FtsEngineRaises

\* ---------------------------------------------- retrieveGit: the claims

\* The 0-based index and the score of the commit with hash h.
IndexOfHash(h) == (CHOOSE i \in 1..Len(commits) : commits[i].hash = h) - 1
ScoreOfHash(h) == At(results, IndexOfHash(h))

\* The passing indices in the order the spec asks for, stated without the
\* sort: index i stands after exactly the passing indices with a greater
\* score, or an equal score and a smaller index.
PassingSet == {i \in 0..(Len(results) - 1) : At(results, i) > threshold}
Before(j, i) ==
    \/ At(results, j) > At(results, i)
    \/ At(results, j) = At(results, i) /\ j < i
RankOf(i) == 1 + Cardinality({j \in PassingSet : Before(j, i)})
Ranked == [k \in 1..Cardinality(PassingSet) |-> CHOOSE i \in PassingSet : RankOf(i) = k]

\* W: the first n of the ranked passing indices (n >= 0).
Window == SubSeq(Ranked, 1, Min(termN, Len(Ranked)))
InWindow(i) == \E k \in 1..Len(Window) : Window[k] = i
EmptyDiff(i) == gitChange[At(commits, i).hash] = ""
ChunkHashes == [k \in 1..Len(chunks) |-> chunks[k].filepath]
IsPrefix(s, t) == Len(s) <= Len(t) /\ s = SubSeq(t, 1, Len(s))

\* C6: every chunk retrieveGit produces belongs to a commit whose score is
\* strictly greater than the threshold; a score equal to or below the
\* threshold never contributes a chunk.
C6_ThresholdStrict ==
    \A k \in 1..Len(chunks) : ScoreOfHash(chunks[k].filepath) > threshold

C6_Witness ==
    /\ gpc = "done"
    /\ Len(chunks) >= 1
    /\ termN >= Len(commits)
    /\ \E i \in 0..(Len(results) - 1) : At(results, i) = threshold /\ ~EmptyDiff(i)

\* C7 as claimed: retrieveGit never returns more than n chunks, for every
\* integer cap n.
C7_CapAnyInteger ==
    gpc = "done" => Len(chunks) <= termN

\* C7 amended: for every cap n >= 0, retrieveGit never holds or returns more
\* than n chunks.
C7_CapNonNegative ==
    termN >= 0 => Len(chunks) <= termN

C7_Witness ==
    /\ gpc = "done"
    /\ termN >= 1
    /\ Len(chunks) = termN
    /\ Cardinality({i \in PassingSet : ~EmptyDiff(i)}) > termN

\* C9: with W the first n ranked passing indices (n >= 0), the result holds
\* exactly one chunk per commit of W with a non-empty diff, in W's order; a
\* commit of W with an empty diff has no chunk, each such commit shortens the
\* result by one, and no commit outside W has a chunk.
C9_EmptyDiffSkipped ==
    gpc = "done" /\ termN >= 0 =>
        LET kept == SelectSeq(Window, LAMBDA i : ~EmptyDiff(i))
        IN  /\ ChunkHashes = [k \in 1..Len(kept) |-> At(commits, kept[k]).hash]
            /\ Len(chunks) = Len(Window)
                               - Cardinality({k \in 1..Len(Window) : EmptyDiff(Window[k])})
            /\ \A k \in 1..Len(chunks) : InWindow(IndexOfHash(chunks[k].filepath))

C9_Witness ==
    /\ gpc = "done"
    /\ termN >= 1
    /\ Len(chunks) >= 1
    /\ \E k \in 1..Len(Window) : EmptyDiff(Window[k])
    /\ \E i \in PassingSet : ~InWindow(i) /\ ~EmptyDiff(i)

\* C10: the indices retrieveGit works through are a prefix of the passing
\* indices ranked by their own scores, descending, ties by ascending index;
\* hence the chunks returned are in descending order of score, and chunks of
\* equal score in ascending order of commit index.
C10_RankedByOwnScore ==
    gpc \in {"loop", "done"} =>
        /\ IsPrefix(indexes, Ranked)
        /\ \A k \in 1..(Len(chunks) - 1) :
               Before(IndexOfHash(chunks[k].filepath), IndexOfHash(chunks[k + 1].filepath))

C10_Witness ==
    /\ gpc = "done"
    /\ Len(chunks) >= 3
    /\ ScoreOfHash(chunks[1].filepath) > ScoreOfHash(chunks[2].filepath)
    /\ ScoreOfHash(chunks[2].filepath) = ScoreOfHash(chunks[3].filepath)
    /\ IndexOfHash(chunks[1].filepath) > IndexOfHash(chunks[3].filepath)

WindowHashes == [k \in 1..Len(Window) |-> At(commits, Window[k]).hash]
RankedHashes == [k \in 1..Len(Ranked) |-> At(commits, Ranked[k]).hash]

\* C11: the hashes getChangeByHash is called with are, in call order, a
\* prefix of the ranked passing commits (so only passing commits, each at most
\* once, in ranked order) that stays within the first n of them (n >= 0); a
\* call that returns has fetched exactly those; with no passing commit the
\* call returns [] and getChangeByHash is never called.
C11_FetchOnlyWindow ==
    /\ IsPrefix(gitCalls, RankedHashes)
    /\ termN >= 0 => IsPrefix(gitCalls, WindowHashes)
    /\ gpc = "done" /\ termN >= 0 => gitCalls = WindowHashes
    /\ PassingSet = {} => gitCalls = <<>> /\ chunks = <<>>
    /\ PassingSet = {} /\ gitErr.at = "none" => gpc \in {"start", "done"}

C11_Witness ==
    /\ gpc = "done"
    /\ termN >= 2
    /\ Len(gitCalls) = termN
    /\ Len(Ranked) > termN
    /\ Len(chunks) < Len(gitCalls)

\* C12: once getHistoryCommits or a getChangeByHash call has rejected,
\* retrieveGit has failed: it returns no chunk sequence and getChangeByHash
\* has not been called again.
C12_GitFailurePropagates ==
    gitErr.at # "none" => gpc = "failed" /\ Len(gitCalls) = gitErr.calls

C12_Witness ==
    /\ gitErr.at = "change"
    /\ Len(chunks) >= 1
    /\ Len(gitCalls) < Len(indexes)

\* C18: every chunk of retrieveGit has startLine = 0, endLine = 0, language
\* "", filepath and digest equal to the hash of the commit it was made from
\* (the k-th chunk from the k-th fetched commit with a non-empty diff), and
\* that commit's non-empty diff as content.
C18_ChunkShape ==
    LET made == SelectSeq(gitCalls, LAMBDA h : gitChange[h] # "")
    IN  \A k \in 1..Len(chunks) :
            /\ k <= Len(made)
            /\ chunks[k].filepath = made[k]
            /\ chunks[k].digest = made[k]
            /\ chunks[k].content = gitChange[made[k]]
            /\ chunks[k].content # ""
            /\ chunks[k].startLine = 0
            /\ chunks[k].endLine = 0
            /\ chunks[k].language = ""

C18_Witness ==
    /\ gpc = "done"
    /\ Len(chunks) >= 2
    /\ Len(gitCalls) > Len(chunks)

\* ---------------------------------------------- retrieveFts: the claims

\* C8: retrieveFts never returns more than term.n chunks, whatever the
\* engine returns.
C8_FtsCapRespected ==
    fpc = "done" => Len(ftsResults) <= term.n

\* C13: retrieveFts never raises: whenever the engine's construction or its
\* retrieve call raises, retrieveFts completes and returns [].
C13_FtsNeverRaises ==
    /\ fpc # "failed"
    /\ ftsWarned => fpc = "done" /\ ftsResults = <<>>

\* A query that is empty or holds white space only.
BlankQuery == \A i \in 1..Len(term.query) : term.query[i] \in {" ", "\t", "\n"}

\* C14: for a query that is empty after trimming, retrieveFts returns [] and
\* never invokes the engine's retrieve; for any other query a call that
\* completes has invoked retrieve exactly once.
C14_EmptyQueryShortCircuit ==
    /\ Len(engineCalls) <= 1
    /\ BlankQuery => engineCalls = <<>> /\ fpc # "await"
    /\ BlankQuery /\ fpc = "done" => ftsResults = <<>>
    /\ ~BlankQuery /\ fpc = "done" => Len(engineCalls) = 1

C14_Witness ==
    /\ fpc = "done"
    /\ BlankQuery
    /\ Len(term.query) >= 2
    /\ \E i \in 1..Len(term.query) : term.query[i] = "\t"

\* The white-space-separated tokens of s: its maximal runs of characters that
\* are not white space.
RECURSIVE WsTokens(_)
WsTokens(s) ==
    IF s = <<>> THEN <<>>
    ELSE IF s[1] \in {" ", "\t", "\n"} THEN WsTokens(SubSeq(s, 2, Len(s)))
    ELSE LET n == CHOOSE m \in 1..Len(s) :
                      /\ \A i \in 1..m : s[i] \notin {" ", "\t", "\n"}
                      /\ m = Len(s) \/ s[m + 1] \in {" ", "\t", "\n"}
         IN  <<SubSeq(s, 1, n)>> \o WsTokens(SubSeq(s, n + 1, Len(s)))

\* C17: the query string handed to the engine is the white-space-separated
\* tokens of the query, each in double quotes, joined with " OR "; runs of
\* spaces, tabs and newlines separate tokens and yield no empty token.
C17_QueryTokensQuoted ==
    \A c \in 1..Len(engineCalls) :
        LET tokens == WsTokens(term.query)
        IN  engineCalls[c].query =
                Join([k \in 1..Len(tokens) |-> Quote(tokens[k])], OrSeparator)

\* ------------------------------------------------------ deduplicateChunks
\* The (filepath, startLine, endLine) triples of the chunks handed in: each of
\* the last three differs from the first in one field.
DedupKeys ==
    { <<"a.ts", 0, 1>>, <<"b.ts", 0, 1>>, <<"a.ts", 1, 1>>, <<"a.ts", 0, 2>> }

\* The (digest, content) pairs of the chunks handed in.
DedupPayloads == { <<"d1", "x">>, <<"d2", "x">>, <<"d1", "y">> }

\* The chunks handed in.
DedupChunks ==
    { [filepath |-> k[1], startLine |-> k[2], endLine |-> k[3],
       digest |-> p[1], content |-> p[2]] : k \in DedupKeys, p \in DedupPayloads }

\* The sequences of at most n elements of S.
SeqUpTo(S, n) == UNION { [1..m -> S] : m \in 0..n }

\* Faulty variant: the digest takes part in the comparison.
ChunkEqualWithDigest(a, b) ==
    /\ a.filepath = b.filepath
    /\ a.startLine = b.startLine
    /\ a.endLine = b.endLine
    /\ a.digest = b.digest

\* The `equal` callback deduplicateChunks passes to deduplicateArray.
ChunkEqual(a, b) ==
    /\ a.filepath = b.filepath
    /\ a.startLine = b.startLine
    /\ a.endLine = b.endLine

RECURSIVE DeduplicateArray(_)
\* Faulty variant: one pass that removes the first duplicate it meets and stops.
DeduplicateArrayDropsOne(array) ==
    LET dups == { i \in 1..Len(array) :
                      \E j \in 1..(i - 1) : ChunkEqual(array[j], array[i]) }
    IN  IF dups = {} THEN array
        ELSE LET d == CHOOSE i \in dups : \A j \in dups : i <= j
             IN  SubSeq(array, 1, d - 1) \o SubSeq(array, d + 1, Len(array))

\* deduplicateArray(array, equal) with equal = ChunkEqual: `result` after the
\* loop has taken the items of array in order.
DeduplicateArray(array) ==
    IF array = <<>> THEN <<>>
    ELSE LET result == DeduplicateArray(SubSeq(array, 1, Len(array) - 1))
             item == array[Len(array)]
         IN  IF ~ \E e \in 1..Len(result) : ChunkEqual(result[e], item)
             THEN Append(result, item)
             ELSE result

DeduplicateChunks(chunkSeq) == DeduplicateArray(chunkSeq)

DedupInit ==
    /\ dIn \in SeqUpTo(DedupChunks, MaxChunks)
    /\ dOnce = <<>>
    /\ dTwice = <<>>
    /\ dpc = "start"

\* deduplicateChunks(dIn) returns.
DedupCall ==
    /\ dpc = "start"
    /\ dOnce' = DeduplicateChunks(dIn)
    /\ dpc' = "once"
    /\ UNCHANGED <<dIn, dTwice>>
    /\ UNCHANGED otherThanDedup

\* deduplicateChunks is called with its own result and returns.
DedupCallAgain ==
    /\ dpc = "once"
    /\ dTwice' = DeduplicateChunks(dOnce)
    /\ dpc' = "twice"
    /\ UNCHANGED <<dIn, dOnce>>
    /\ UNCHANGED otherThanDedup

DedupNext == DedupCall \/ DedupCallAgain

\* ------------------------------------------- deduplicateChunks: the claims
\* C15: deduplicateChunks is idempotent: applied to its own result it returns
\* that result, element for element and in the same order.
C15_DedupIdempotent == dpc = "twice" => dTwice = dOnce

C15_Witness ==
    /\ dpc = "twice"
    /\ Len(dOnce) >= 1
    /\ Len(dIn) >= Len(dOnce) + 2

\* The key of a chunk.
KeyOf(c) == <<c.filepath, c.startLine, c.endLine>>

\* The positions of dIn that hold the first chunk with their key.
FirstPositions ==
    { i \in 1..Len(dIn) : \A j \in 1..(i - 1) : KeyOf(dIn[j]) # KeyOf(dIn[i]) }

\* C16: deduplicateChunks(s) keeps, for each key (filepath, startLine,
\* endLine), the first chunk of s with that key and nothing else, in the order
\* of s: no two output chunks share a key, every key of s occurs in the output,
\* and a later chunk that differs only in digest or content is dropped.
C16_FirstOfEachKey ==
    dpc # "start" =>
        /\ Len(dOnce) = Cardinality(FirstPositions)
        /\ \A k \in 1..Len(dOnce) :
               dOnce[k] = dIn[CHOOSE i \in FirstPositions :
                                  Cardinality({ j \in FirstPositions : j <= i }) = k]
        /\ \A k, l \in 1..Len(dOnce) : k # l => KeyOf(dOnce[k]) # KeyOf(dOnce[l])
        /\ \A i \in 1..Len(dIn) : \E k \in 1..Len(dOnce) : KeyOf(dOnce[k]) = KeyOf(dIn[i])

C16_Witness ==
    /\ dpc = "once"
    /\ Len(dIn) = 3
    /\ Len(dOnce) = 2
    /\ \E i, j \in 1..Len(dIn) :
           /\ i < j
           /\ KeyOf(dIn[i]) = KeyOf(dIn[j])
           /\ dIn[i].digest # dIn[j].digest
           /\ dIn[i].content # dIn[j].content

\* ---------------------------------------------------- provideChatResponse
\* What an event of the response stream carries: text only, text with a
\* finish_reason, or an error code.
EventKinds == {"text", "finish", "error"}

\* `response` before the first event.
NoResponse == [set |-> FALSE, text |-> <<>>, finish |-> FALSE]

\* Nothing read yet on line 319.
NoGenerated == [set |-> FALSE, text |-> <<>>]

\* Faulty variant: llm.stream is called without the signal.
StreamSignalOmitted == "absent"
\* provideChatResponse, line 37: the signal option is ac.signal.
StreamSignal == "ac"

\* Faulty variant: fetch is called without the signal.
FetchSignalDropped(signal) == "absent"
\* _generate, line 260, and completionWithRetry, line 354: options.signal is
\* handed on to fetch.
FetchSignal(signal) == signal

\* Whether the signal handed over is aborted; no signal is never aborted.
SignalAborted(signal) == signal = "ac" /\ acAborted

\* resolve or reject of a promise: only the first call settles it.
Settle(p, how) == IF p = "pending" THEN how ELSE p

\* _generate, lines 291-296: the catch callback of completionWithRetry.
CatchError ==
    IF ~rejected
    THEN /\ rejected' = TRUE
         /\ promise' = Settle(promise, "rejected")
         /\ settles' = Append(settles, "reject")
    ELSE UNCHANGED <<rejected, promise, settles>>

ChatInit ==
    /\ cpc = "start"
    /\ hasToken \in BOOLEAN
    /\ humanTyped \in BOOLEAN
    /\ serverEvents \in SeqUpTo(EventKinds, MaxEvents)
    /\ tokenCancelled = FALSE
    /\ listening = FALSE
    /\ acAborted = FALSE
    /\ streamSignal = "none"
    /\ fetchSignal = "none"
    /\ net = "none"
    /\ delivered = 0
    /\ rejected = FALSE
    /\ resolved = FALSE
    /\ response = NoResponse
    /\ promise = "none"
    /\ settles = <<>>
    /\ content = <<>>
    /\ inChunk = FALSE
    /\ generated = NoGenerated
    /\ deliveredAtCancel = 0

\* provideChatResponse, line 25: _newLLM constructs ChatDeepseek, which throws
\* when no API key is configured (deepseek.ts, lines 198-200).
ChatNoApiKey ==
    /\ UNCHANGED <<inChunk, generated>>
    /\ cpc = "start"
    /\ cpc' = "failed"
    /\ UNCHANGED <<hasToken, humanTyped, serverEvents, tokenCancelled, listening,
                   acAborted, streamSignal, fetchSignal, net, delivered, rejected,
                   resolved, response, promise, settles, content, deliveredAtCancel>>
    /\ UNCHANGED otherThanChat

\* provideChatResponse, lines 25-39, up to the await: the AbortController is
\* made, the listener registered when a token is given, llm.stream called.
ChatCallStream ==
    /\ UNCHANGED <<inChunk, generated>>
    /\ cpc = "start"
    /\ listening' = hasToken
    /\ streamSignal' = StreamSignal
    /\ cpc' = "called"
    /\ UNCHANGED <<hasToken, humanTyped, serverEvents, tokenCancelled, acAborted,
                   fetchSignal, net, delivered, rejected, resolved, response,
                   promise, settles, content, deliveredAtCancel>>
    /\ UNCHANGED otherThanChat

\* _generate, lines 245-247: with no message of type "human" the filter leaves
\* nothing and reading .content of the first element throws.
GenerateNoHuman ==
    /\ UNCHANGED <<inChunk, generated>>
    /\ cpc = "called"
    /\ ~humanTyped
    /\ cpc' = "failed"
    /\ UNCHANGED <<hasToken, humanTyped, serverEvents, tokenCancelled, listening,
                   acAborted, streamSignal, fetchSignal, net, delivered, rejected,
                   resolved, response, promise, settles, content, deliveredAtCancel>>
    /\ UNCHANGED otherThanChat

\* _generate, lines 243-260, and completionWithRetry, lines 345-355: the
\* promise is made and fetch is called with the signal of the options; with a
\* signal already aborted fetch rejects at once and the catch callback runs.
GenerateFetch ==
    /\ UNCHANGED <<inChunk, generated>>
    /\ cpc = "called"
    /\ humanTyped
    /\ cpc' = "generating"
    /\ fetchSignal' = FetchSignal(streamSignal)
    /\ IF SignalAborted(FetchSignal(streamSignal))
       THEN /\ net' = "abandoned"
            /\ rejected' = TRUE
            /\ promise' = "rejected"
            /\ settles' = <<"reject">>
       ELSE /\ net' = "pending"
            /\ promise' = "pending"
            /\ UNCHANGED <<rejected, settles>>
    /\ UNCHANGED <<hasToken, humanTyped, serverEvents, tokenCancelled, listening,
                   acAborted, streamSignal, delivered, resolved, response, content,
                   deliveredAtCancel>>
    /\ UNCHANGED otherThanChat

\* completionWithRetry, lines 346-373: fetch resolves and the body is read.
ResponseArrives ==
    /\ UNCHANGED <<inChunk, generated>>
    /\ net = "pending"
    /\ net' = "open"
    /\ UNCHANGED <<cpc, hasToken, humanTyped, serverEvents, tokenCancelled, listening,
                   acAborted, streamSignal, fetchSignal, delivered, rejected,
                   resolved, response, promise, settles, content, deliveredAtCancel>>
    /\ UNCHANGED otherThanChat

\* completionWithRetry, lines 378-398, and the onmessage callback of _generate,
\* lines 261-290, for the next event of the stream.  The lines of one chunk
\* are gone through without a pause; at the end of the chunk the loop awaits
\* reader.read() and, when the promise is resolved, _generate resumes and
\* reads the text of the resolved value (lines 313-319), which is `response`.
StreamEvent ==
    /\ net = "open"
    /\ delivered < Len(serverEvents)
    /\ delivered' = delivered + 1
    /\ \E more \in BOOLEAN :
           /\ more => delivered + 1 < Len(serverEvents)
           /\ inChunk' = more
    /\ LET kind == serverEvents[delivered + 1]
           next == IF ~response.set
                   THEN [set |-> TRUE, text |-> <<delivered + 1>>,
                         finish |-> kind = "finish"]
                   ELSE [set |-> TRUE, text |-> Append(response.text, delivered + 1),
                         finish |-> kind = "finish"]
       IN  IF kind = "error"
           THEN /\ CatchError
                /\ UNCHANGED <<response, resolved>>
           ELSE /\ response' = next
                /\ IF kind = "finish" /\ ~resolved /\ ~rejected
                   THEN /\ resolved' = TRUE
                        /\ promise' = Settle(promise, "resolved")
                        /\ settles' = Append(settles, "resolve")
                   ELSE UNCHANGED <<resolved, promise, settles>>
                /\ UNCHANGED rejected
    /\ generated' = IF ~inChunk' /\ promise' = "resolved" /\ ~generated.set
                    THEN [set |-> TRUE, text |-> response'.text]
                    ELSE generated
    /\ UNCHANGED <<cpc, hasToken, humanTyped, serverEvents, tokenCancelled, listening,
                   acAborted, streamSignal, fetchSignal, net, content,
                   deliveredAtCancel>>
    /\ UNCHANGED otherThanChat

\* completionWithRetry, lines 379-381 and 404: the stream is done and
\* completionWithRetry resolves; nothing is attached to its fulfilment.
StreamEnds ==
    /\ ~inChunk
    /\ UNCHANGED <<inChunk, generated>>
    /\ net = "open"
    /\ delivered = Len(serverEvents)
    /\ net' = "ended"
    /\ UNCHANGED <<cpc, hasToken, humanTyped, serverEvents, tokenCancelled, listening,
                   acAborted, streamSignal, fetchSignal, delivered, rejected,
                   resolved, response, promise, settles, content, deliveredAtCancel>>
    /\ UNCHANGED otherThanChat

\* fetch or reader.read rejects for a transport error (lines 346, 378): the
\* catch callback of lines 291-296 runs.
NetFails ==
    /\ ~inChunk
    /\ UNCHANGED <<inChunk, generated>>
    /\ net \in {"pending", "open"}
    /\ net' = "broken"
    /\ CatchError
    /\ UNCHANGED <<cpc, hasToken, humanTyped, serverEvents, tokenCancelled, listening,
                   acAborted, streamSignal, fetchSignal, delivered, resolved,
                   response, content, deliveredAtCancel>>
    /\ UNCHANGED otherThanChat

\* The caller's token, which had not signalled when provideChatResponse was
\* called, signals cancellation.  A registered listener (lines 28-30) calls
\* ac.abort(); a request in flight that was made with ac.signal is abandoned
\* and its fetch or read rejects, which runs the catch callback.
Cancel ==
    /\ ~inChunk
    /\ UNCHANGED <<inChunk, generated>>
    /\ hasToken
    /\ cpc # "start"
    /\ ~tokenCancelled
    /\ tokenCancelled' = TRUE
    /\ deliveredAtCancel' = delivered
    /\ acAborted' = listening
    /\ IF listening /\ fetchSignal = "ac" /\ net \in {"pending", "open"}
       THEN /\ net' = "abandoned"
            /\ CatchError
       ELSE UNCHANGED <<net, rejected, promise, settles>>
    /\ UNCHANGED <<cpc, hasToken, humanTyped, serverEvents, listening, streamSignal,
                   fetchSignal, delivered, resolved, response, content>>
    /\ UNCHANGED otherThanChat

\* provideChatResponse, lines 32-51: _generate has returned its result, the
\* stream yields the one chunk made of its text, and the accumulated content
\* is returned.
ChatReturns ==
    /\ ~inChunk
    /\ UNCHANGED <<inChunk, generated>>
    /\ cpc = "generating"
    /\ promise = "resolved"
    /\ generated.set
    /\ content' = generated.text
    /\ cpc' = "done"
    /\ UNCHANGED <<hasToken, humanTyped, serverEvents, tokenCancelled, listening,
                   acAborted, streamSignal, fetchSignal, net, delivered, rejected,
                   resolved, response, promise, settles, deliveredAtCancel>>
    /\ UNCHANGED otherThanChat

\* provideChatResponse, line 32: the promise of _generate is rejected, so the
\* await throws and provideChatResponse rejects.
ChatRejects ==
    /\ ~inChunk
    /\ UNCHANGED <<inChunk, generated>>
    /\ cpc = "generating"
    /\ promise = "rejected"
    /\ cpc' = "failed"
    /\ UNCHANGED <<hasToken, humanTyped, serverEvents, tokenCancelled, listening,
                   acAborted, streamSignal, fetchSignal, net, delivered, rejected,
                   resolved, response, promise, settles, content, deliveredAtCancel>>
    /\ UNCHANGED otherThanChat

ChatNext ==
    \/ ChatNoApiKey
    \/ ChatCallStream
    \/ GenerateNoHuman
    \/ GenerateFetch
    \/ ResponseArrives
    \/ StreamEvent
    \/ StreamEnds
    \/ NetFails
    \/ Cancel
    \/ ChatReturns
    \/ ChatRejects

\* ----------------------------------------- provideChatResponse: the claims
\* C19: when the caller's token signals cancellation while provideChatResponse
\* is in flight, the signal that was passed to llm.stream is aborted and the
\* network request made with it is abandoned: no request stays in flight and
\* no further event of its stream is handled.
C19_CancelAbortsRequest ==
    listening /\ tokenCancelled =>
        /\ streamSignal = "ac"
        /\ acAborted
        /\ fetchSignal \in {"none", "ac"}
        /\ net \notin {"pending", "open"}
        /\ delivered = deliveredAtCancel

C19_Witness ==
    /\ listening
    /\ tokenCancelled
    /\ net = "abandoned"
    /\ deliveredAtCancel >= 1
    /\ delivered < Len(serverEvents)
    /\ cpc = "failed"

\* C21: in streaming mode _generate settles for every finite event stream:
\* when the response stream has ended and completionWithRetry has completed,
\* the promise is resolved or rejected, also when no event carried an error
\* code or a finish_reason.
C21_SettlesWhenStreamEnds == net = "ended" => promise \in {"resolved", "rejected"}

\* resolve and reject are called once at most, both counted together.
SettleCallsAtMostOne == Len(settles) <= 1

\* The text _generate obtains from the resolved promise is the text of the
\* events up to and including the first one with a finish_reason, in order.
ResolvedTextUpToFirstFinish ==
    generated.set =>
        \E f \in 1..delivered :
            /\ serverEvents[f] = "finish"
            /\ \A i \in 1..(f - 1) : serverEvents[i] # "finish"
            /\ generated.text = [i \in 1..f |-> i]

\* C22: in streaming mode the promise inside _generate is settled at most
\* once for every sequence of events and transport errors: resolve and reject
\* are never both called, neither is called twice, and the resolved text is
\* the concatenation, in arrival order, of the text of every event up to and
\* including the first event with a finish_reason.
C22_SettledOnce == SettleCallsAtMostOne /\ ResolvedTextUpToFirstFinish

\* ------------------------------------------------------------ configRename
\* registerRenameAction, lines 52-57: a new rename provider is registered with
\* the editor and its registration pushed onto the subscriptions.
RegisterRenameAction(state) ==
    LET id == Len(state.subscriptions) + 1
    IN  [subscriptions |-> Append(state.subscriptions, id),
         renameProviders |-> state.renameProviders \cup {id}]

\* Lines 67-69 and 72-77: the action is registered when the setting is on;
\* nothing is done when it is off.
WhenEnabledRegister(enabled, state) ==
    IF enabled THEN RegisterRenameAction(state) ELSE state

RenameInit ==
    /\ rpc = "start"
    /\ renameEnabled \in BOOLEAN
    /\ subscriptions = <<>>
    /\ renameProviders = {}
    /\ changeLog = <<>>

\* configRename, lines 66-79: the first test, then the listener is attached.
ConfigRename ==
    /\ rpc = "start"
    /\ LET after == WhenEnabledRegister(renameEnabled,
                        [subscriptions |-> subscriptions,
                         renameProviders |-> renameProviders])
       IN  /\ subscriptions' = after.subscriptions
           /\ renameProviders' = after.renameProviders
    /\ rpc' = "listening"
    /\ UNCHANGED <<renameEnabled, changeLog>>
    /\ UNCHANGED otherThanRename

\* The configuration changes, leaving the rename setting at `enabled`, and
\* the listener of lines 71-78 runs.
ConfigChanged(enabled) ==
    /\ rpc = "listening"
    /\ Len(changeLog) < MaxConfigChanges
    /\ renameEnabled' = enabled
    /\ changeLog' = Append(changeLog, enabled)
    /\ LET after == WhenEnabledRegister(enabled,
                        [subscriptions |-> subscriptions,
                         renameProviders |-> renameProviders])
       IN  /\ subscriptions' = after.subscriptions
           /\ renameProviders' = after.renameProviders
    /\ UNCHANGED rpc
    /\ UNCHANGED otherThanRename

RenameNext ==
    \/ ConfigRename
    \/ \E enabled \in BOOLEAN : ConfigChanged(enabled)

\* ---------------------------------------------------- configRename: the claims
\* C23: after any sequence of configuration changes following configRename,
\* at most one rename provider registration is active, and none is active
\* when the rename setting is off as of the latest configuration change.
C23_OneRenameProvider ==
    rpc = "listening" =>
        /\ Cardinality(renameProviders) <= 1
        /\ changeLog # <<>> /\ ~changeLog[Len(changeLog)] => renameProviders = {}

\* --------------------------------------------------- JavaStructurer.parseFile
\* The capture names the switch of lines 43-88 tells apart and that bear on
\* the classes ('import-name' and 'method-returnType' leave them alone, as
\* 'package-name' does but for the package of later classes).
JavaCaptureNames == {"package-name", "class-name", "method-name", "impl-name"}

\* The orders in which the query may declare these names.
NameOrders ==
    { o \in [1..Cardinality(JavaCaptureNames) -> JavaCaptureNames] :
          \A a, b \in DOMAIN o : a # b => o[a] # o[b] }

\* What capture.node.parent() may do: `parent` is not callable and the call
\* throws, or the call yields the parent node, or it yields null.
ParentCalls == {"throws", "node", "null"}

\* The class object of lines 27-34 and 53 ('' is 0).
NewClassObj(package) ==
    [name |-> 0, package |-> package, methods |-> <<>>, implements |-> <<>>]

\* Line 39: the name the switch looks at is query.captureNames[i], the i-th
\* name the query declares; beyond the list it is undefined.
CaptureNameAt(i) ==
    IF i + 1 <= Len(captureNames) THEN captureNames[i + 1] ELSE "undefined"

\* The branches of the switch that call capture.node.parent() (lines 57, 70).
CallsParent(name) == name \in {"class-name", "method-name"}

JavaInit ==
    /\ captures \in SeqUpTo(JavaCaptureNames, MaxCaptures)
    /\ captureNames \in NameOrders
    /\ parentCall \in ParentCalls
    /\ ji = 0
    /\ jpackage = 0
    /\ classObj = NewClassObj(0)
    /\ classes = <<>>
    /\ isLastNode = FALSE
    /\ jpc = "loop"

\* One turn of the loop of lines 37-89 that runs to its end.
JavaStep ==
    /\ jpc = "loop"
    /\ ji < Len(captures)
    /\ LET name == CaptureNameAt(ji)
           text == ji + 1
       IN  /\ ~(CallsParent(name) /\ parentCall = "throws")
           /\ jpackage' = IF name = "package-name" THEN text ELSE jpackage
           /\ classes' = IF name = "class-name" /\ classObj.name # 0
                         THEN Append(classes, classObj) ELSE classes
           /\ classObj' =
                 CASE name = "class-name" ->
                          [(IF classObj.name # 0 THEN NewClassObj(jpackage)
                            ELSE classObj) EXCEPT !.name = text]
                   [] name = "method-name" ->
                          [classObj EXCEPT !.methods = Append(@, text)]
                   [] name = "impl-name" ->
                          [classObj EXCEPT !.implements = Append(@, text)]
                   [] OTHER -> classObj
           /\ isLastNode' = IF name = "class-name" /\ parentCall = "null"
                            THEN TRUE ELSE isLastNode
    /\ ji' = ji + 1
    /\ UNCHANGED <<captures, captureNames, parentCall, jpc>>
    /\ UNCHANGED otherThanJava

\* A turn of the loop in which capture.node.parent() throws (lines 57, 70):
\* parseFile rejects.
JavaStepThrows ==
    /\ jpc = "loop"
    /\ ji < Len(captures)
    /\ CallsParent(CaptureNameAt(ji))
    /\ parentCall = "throws"
    /\ jpc' = "failed"
    /\ UNCHANGED <<captures, captureNames, parentCall, ji, jpackage, classObj,
                   classes, isLastNode>>
    /\ UNCHANGED otherThanJava

\* Lines 91-95: the loop is over; the class at hand is pushed when isLastNode
\* is set, and codeFile is returned.
JavaReturn ==
    /\ jpc = "loop"
    /\ ji = Len(captures)
    /\ classes' = IF isLastNode THEN Append(classes, classObj) ELSE classes
    /\ jpc' = "done"
    /\ UNCHANGED <<captures, captureNames, parentCall, ji, jpackage, classObj,
                   isLastNode>>
    /\ UNCHANGED otherThanJava

JavaNext == JavaStep \/ JavaStepThrows \/ JavaReturn

\* ------------------------------------------- JavaStructurer.parseFile: the claims
\* The classes of the first n captures: one per class-name capture, in order,
\* each with the method-name and impl-name captures that follow it up to the
\* next class-name.
RECURSIVE ClassesOfCaptures(_)
ClassesOfCaptures(n) ==
    IF n = 0 THEN <<>>
    ELSE LET before == ClassesOfCaptures(n - 1)
             last == Len(before)
         IN  CASE captures[n] = "class-name" ->
                      Append(before, [name |-> n, methods |-> <<>>, implements |-> <<>>])
               [] captures[n] = "method-name" /\ last > 0 ->
                      [before EXCEPT ![last].methods = Append(@, n)]
               [] captures[n] = "impl-name" /\ last > 0 ->
                      [before EXCEPT ![last].implements = Append(@, n)]
               [] OTHER -> before

\* C24: parseFile returns a CodeFile whose classes hold one entry per
\* class-name capture, in capture order, each with the methods and implemented
\* interfaces captured after that class-name and before the next one; the
\* last (or only) class of the file is included.
C24_ClassPerCapture ==
    /\ jpc # "failed"
    /\ jpc = "done" =>
           [k \in 1..Len(classes) |->
                [name |-> classes[k].name, methods |-> classes[k].methods,
                 implements |-> classes[k].implements]]
               = ClassesOfCaptures(Len(captures))

\* ------------------------------------------------------ the specifications
\* The parts a specification does not exercise stay as they are.
DbIdle ==
    /\ db = Null /\ fileStore = 0 /\ tables = <<>> /\ handleStore = <<>>
    /\ pc = [c \in Calls |-> "idle"] /\ own = [c \in Calls |-> Null]
    /\ ret = [c \in Calls |-> Null] /\ obs = [c \in Calls |-> NoObs]
    /\ opens = 0 /\ deletes = 0 /\ everMissing = TRUE /\ lastDone = 0

GitIdle ==
    /\ commits = <<>> /\ gitChange = <<>> /\ results = <<>> /\ threshold = 0
    /\ termN = 0 /\ gpc = "idle" /\ indexes = <<>> /\ gi = 1 /\ chunks = <<>>
    /\ gitCalls = <<>> /\ gitErr = NoGitErr

FtsIdle ==
    /\ term = [query |-> <<>>, n |-> 0] /\ fpc = "idle" /\ ftsResults = <<>>
    /\ engineCalls = <<>> /\ ftsWarned = FALSE

DedupIdle == dIn = <<>> /\ dOnce = <<>> /\ dTwice = <<>> /\ dpc = "idle"

ChatIdle ==
    /\ cpc = "idle" /\ hasToken = FALSE /\ humanTyped = FALSE /\ serverEvents = <<>>
    /\ tokenCancelled = FALSE /\ listening = FALSE /\ acAborted = FALSE
    /\ streamSignal = "none" /\ fetchSignal = "none" /\ net = "none"
    /\ delivered = 0 /\ rejected = FALSE /\ resolved = FALSE
    /\ response = NoResponse /\ promise = "none" /\ settles = <<>>
    /\ content = <<>> /\ deliveredAtCancel = 0
    /\ inChunk = FALSE /\ generated = NoGenerated

RenameIdle ==
    /\ rpc = "idle" /\ renameEnabled = FALSE /\ subscriptions = <<>>
    /\ renameProviders = {} /\ changeLog = <<>>

JavaIdle ==
    /\ captures = <<>> /\ captureNames = <<>> /\ parentCall = "node" /\ ji = 0
    /\ jpackage = 0 /\ classObj = NewClassObj(0) /\ classes = <<>>
    /\ isLastNode = FALSE /\ jpc = "idle"

InitDb == DbInit /\ GitIdle /\ FtsIdle /\ DedupIdle /\ ChatIdle /\ RenameIdle /\ JavaIdle

SpecDb == InitDb /\ [][DbNext]_vars

InitGit == GitInit /\ DbIdle /\ FtsIdle /\ DedupIdle /\ ChatIdle /\ RenameIdle /\ JavaIdle

SpecGit == InitGit /\ [][GitNext]_vars

InitFts == FtsInit /\ DbIdle /\ GitIdle /\ DedupIdle /\ ChatIdle /\ RenameIdle /\ JavaIdle

SpecFts == InitFts /\ [][FtsNext]_vars

InitDedup == DedupInit /\ DbIdle /\ GitIdle /\ FtsIdle /\ ChatIdle /\ RenameIdle /\ JavaIdle

SpecDedup == InitDedup /\ [][DedupNext]_vars

InitChat == ChatInit /\ DbIdle /\ GitIdle /\ FtsIdle /\ DedupIdle /\ RenameIdle /\ JavaIdle

SpecChat == InitChat /\ [][ChatNext]_vars

InitRename == RenameInit /\ DbIdle /\ GitIdle /\ FtsIdle /\ DedupIdle /\ ChatIdle /\ JavaIdle

SpecRename == InitRename /\ [][RenameNext]_vars

InitJava ==
    JavaInit /\ DbIdle /\ GitIdle /\ FtsIdle /\ DedupIdle /\ ChatIdle /\ RenameIdle

SpecJava == InitJava /\ [][JavaNext]_vars

====
